---- MODULE Spec2Model ----
(***************************************************************************)
(* The Met mini gallery (src/sketch.js): a p5 sketch that turns a keyword  *)
(* into a grid of thumbnails.  The page runs on one event loop: a handler  *)
(* or the continuation of an async function runs to its next await without *)
(* interruption, so every action below is one such run.  An await of a     *)
(* network promise (fetch, res.json(), loadImage) suspends the invocation  *)
(* of searchMet until the reply arrives; other handlers run meanwhile.     *)
(*                                                                         *)
(* Strings are sequences of one-character strings, so that trim is a       *)
(* computation.  Numbers of the layout are exact fractions <<n, d>>.       *)
(***************************************************************************)
EXTENDS Integers, Sequences, FiniteSets, TLC

\* ------------------------------------------------------------ constants
MAX_ITEMS == 18
GRID_COLS == 6
PAD == 20
GAP == 10
\* createCanvas(900, 560)
width == 900
height == 560

\* the first entries of randomWords; random() draws one of the first WordsUsed
randomWords == << <<"m","a","s","k">>, <<"r","o","b","o","t">>,
                  <<"w","e","a","v","i","n","g">> >>

\* ------------------------------------------------------------ bounds
\* searchMet invocations started in one run (setup's included)
MaxSearches == 2
\* per-item failures (detail fetch or image load) the network delivers in one run
MaxFaults == 2
\* entries of randomWords that random() draws from
WordsUsed == 1
\* candidate ids the search endpoint hands out in one run
MaxIds == 6
\* per-item failures in one run of the long-answer scenario
CapFaults == 1
\* tile counts layoutGrid is applied to as a function of the count alone
MaxTiles == 313
\* failing requests and ids answered in one run of the session with its canvas
ViewFaults == 1
ViewIds == 2
\* failing requests and ids answered in one run under fair scheduling
LiveFaults == 1
LiveIds == 3

\* candidate id lists the search endpoint answers with (the third out of id
\* order, so that a re-sorted result differs from the fetch order)
IdLists == { <<>>, <<1>>, <<2, 1>>, <<1, 2, 3>> }
\* the same with a long answer: one more id than the cap
CapLists == IdLists \cup { [n \in 1..(MAX_ITEMS + 1) |-> n] }
\* what the query input can hold when the page loads or after the user edits it
InputValues == { <<>>, <<" ">>, <<"a", " ">> }
\* pointer positions << mouseX, mouseY >>: the canvas origin, the first tile's
\* corner, inside tile 1 near its bottom edge, the gap between tiles 1 and 2,
\* inside tile 2, and the bottom padding
Points == { <<0, 0>>, <<20, 20>>, <<100, 530>>, <<160, 100>>, <<200, 100>>,
            <<100, 550>> }
\* what textWidth may measure for a tooltip line, in pixels
TextWidths == { 60, 700, 900 }
\* non-ok statuses of the search endpoint
BadStatus == { "404", "500" }

VARIABLES
  booted,    \* setup() has run
  qEl,       \* value of the #query input
  loading,   \* let loading
  errMsg,    \* let errMsg (<<>> is null)
  items,     \* let items
  statusEl,  \* textContent of #status
  searches,  \* the searchMet invocations, in the order they were started
  net,       \* requests in flight
  world,     \* what the environment still offers: triggers, failures, answers
  out        \* what the step just taken drew on the canvas or opened

\* the session and its environment: all but the output of the last step
state == << booted, qEl, loading, errMsg, items, statusEl, searches, net, world >>
vars == << state, out >>

\* ------------------------------------------------------------ values
Null == <<>>
\* JavaScript's falsy strings and missing fields, as a body field can carry them
Undefined == <<"undefined">>
Falsy(v) == v = <<>> \/ v = Undefined
\* a || b
OrElse(a, b) == IF Falsy(a) THEN b ELSE a

IsSpace(c) == c = " "
RECURSIVE TrimStart(_)
TrimStart(s) ==
  IF s # <<>> /\ IsSpace(Head(s)) THEN TrimStart(Tail(s)) ELSE s
RECURSIVE TrimEnd(_)
TrimEnd(s) ==
  IF s # <<>> /\ IsSpace(s[Len(s)]) THEN TrimEnd(SubSeq(s, 1, Len(s) - 1)) ELSE s
\* String.prototype.trim
Trim(s) == TrimEnd(TrimStart(s))

Msg(kind, a, b, q) == [kind |-> kind, a |-> a, b |-> b, q |-> q]

\* An output of a handler that read the pointer at (mx, my): a "frame" of
\* draw() or a "press" handled by mousePressed().  show is what the frame
\* shows, text the error message drawn or the url opened, hover what
\* getHoveredItem returned, tip the tooltip box << x, y, boxW, boxH >>.
Output(kind, mx, my, show, text, hover, tip) ==
  [ kind |-> kind, mx |-> mx, my |-> my, show |-> show, text |-> text,
    hover |-> hover, tip |-> tip ]
NoOutput == Output("none", 0, 0, "", <<>>, <<>>, <<>>)

\* ------------------------------------------------------------ fractions
RECURSIVE GCD(_, _)
GCD(a, b) == IF b = 0 THEN a ELSE GCD(b, a % b)
Abs(a) == IF a < 0 THEN -a ELSE a
\* n / d in lowest terms, d > 0 (a and b are the values of n and d)
Frac(n, d) ==
  LET Lowest(a, b) ==
        LET g == GCD(Abs(a), Abs(b))
            sg == IF b < 0 THEN -1 ELSE 1
        IN  << (sg * a) \div g, (sg * b) \div g >>
  IN  CHOOSE f \in { Lowest(a, b) : a \in { n }, b \in { d } } : TRUE
Num(k) == << k, 1 >>
FAdd(p, q) == Frac(p[1] * q[2] + q[1] * p[2], p[2] * q[2])
FMul(p, q) == Frac(p[1] * q[1], p[2] * q[2])
FLeq(p, q) == p[1] * q[2] <= q[1] * p[2]
FLt(p, q) == p[1] * q[2] < q[1] * p[2]
\* Math.ceil(n / d) and Math.floor(n / d) for n >= 0, d > 0
Ceil(n, d) == (n + d - 1) \div d
Floor(n, d) == n \div d

\* ------------------------------------------------------------ the collection
\* primaryImageSmall of object id, when the object has one
ImageUrl(id) == << "https://images.metmuseum.org/", ToString(id) >>
\* The other fields of the detail body of object id: every third object has no
\* title, every second one no artist, so that the defaults are exercised.
Detail(id, image) ==
  [ objectID |-> id,
    title |-> IF id % 3 = 0 THEN Undefined ELSE << "title", ToString(id) >>,
    artistDisplayName |-> IF id % 2 = 0 THEN <<>> ELSE << "artist", ToString(id) >>,
    objectDate |-> IF id % 2 = 0 THEN Undefined ELSE << "1900" >>,
    primaryImageSmall |-> image ]
\* a reply of fetch(): the promise rejects, or resolves to a response
Responses == { [rejected |-> TRUE, ok |-> FALSE], [rejected |-> FALSE, ok |-> FALSE],
               [rejected |-> FALSE, ok |-> TRUE] }
OkResponse == [rejected |-> FALSE, ok |-> TRUE]
\* the body of a detail reply: res.json() rejects, or resolves to d
DetailBodies(id) ==
  { [parses |-> FALSE, d |-> Detail(id, <<>>)] } \cup
  { [parses |-> TRUE, d |-> Detail(id, u)] : u \in { Undefined, <<>>, ImageUrl(id) } }

\* ------------------------------------------------------------ fetchObject
\* What fetchObject(objectID) resolves to, given the reply to its fetch and the
\* body of that reply: <<>> for null, else the one record.
fetchObject(res, body) ==
  IF res.rejected THEN <<>>
  ELSE IF ~res.ok THEN <<>>
  ELSE IF ~body.parses THEN <<>>
  ELSE LET d == body.d
           imgUrl == OrElse(d.primaryImageSmall, <<>>)
       IN  IF Falsy(imgUrl) THEN <<>>
           ELSE << [ objectID |-> d.objectID,
                     title |-> OrElse(d.title, << "(untitled)" >>),
                     artist |-> OrElse(d.artistDisplayName, << "(unknown artist)" >>),
                     date |-> OrElse(d.objectDate, <<>>),
                     imageUrl |-> imgUrl ] >>

\* the reply carried a usable record: an ok response whose body parses and names
\* a non-empty image (what the network delivered, whatever fetchObject made of it)
Usable(res, body) ==
  /\ ~res.rejected /\ res.ok /\ body.parses
  /\ body.d.primaryImageSmall # <<>> /\ body.d.primaryImageSmall # Undefined

\* ------------------------------------------------------------ tiles
\* { ...base, img, x: 0, y: 0, w: 0, h: 0 }
NewTile(base, img) ==
  [ objectID |-> base.objectID, title |-> base.title, artist |-> base.artist,
    date |-> base.date, imageUrl |-> base.imageUrl, img |-> img,
    x |-> Num(0), y |-> Num(0), w |-> Num(0), h |-> Num(0) ]

\* layoutGrid with the gaps between rows left out of the tile height
layoutGridNoRowGap(its) ==
  LET cols == GRID_COLS
      rows == Ceil(Len(its), cols)
      tileW == Frac(width - PAD * 2 - GAP * (cols - 1), cols)
      tileH == Frac(height - PAD * 2, rows)
  IN  [ n \in 1..Len(its) |->
          [ its[n] EXCEPT
              !.x = FAdd(Num(PAD), FMul(Num((n - 1) % cols), FAdd(tileW, Num(GAP)))),
              !.y = FAdd(Num(PAD), FMul(Num(Floor(n - 1, cols)), FAdd(tileH, Num(GAP)))),
              !.w = tileW,
              !.h = tileH ] ]

\* layoutGrid placing each tile one tile width or height after the previous
\* one, with no gap added to the step
layoutGridNoGapStep(its) ==
  LET cols == GRID_COLS
      rows == Ceil(Len(its), cols)
      tileW == Frac(width - PAD * 2 - GAP * (cols - 1), cols)
      tileH == Frac(height - PAD * 2 - GAP * (rows - 1), rows)
  IN  [ n \in 1..Len(its) |->
          [ its[n] EXCEPT
              !.x = FAdd(Num(PAD), FMul(Num((n - 1) % cols), tileW)),
              !.y = FAdd(Num(PAD), FMul(Num(Floor(n - 1, cols)), tileH)),
              !.w = tileW,
              !.h = tileH ] ]

\* layoutGrid() over the tile list its: the list it leaves in items
layoutGrid(its) ==
  LET cols == GRID_COLS
      rows == Ceil(Len(its), cols)
      usableW == width - PAD * 2
      usableH == height - PAD * 2
      tileW == Frac(usableW - GAP * (cols - 1), cols)
      tileH == Frac(usableH - GAP * (rows - 1), rows)
  IN  [ n \in 1..Len(its) |->
          LET i == n - 1
              col == i % cols
              row == Floor(i, cols)
          IN  [ its[n] EXCEPT
                  !.x = FAdd(Num(PAD), FMul(Num(col), FAdd(tileW, Num(GAP)))),
                  !.y = FAdd(Num(PAD), FMul(Num(row), FAdd(tileH, Num(GAP)))),
                  !.w = tileW,
                  !.h = tileH ] ]

\* ------------------------------------------------------------ hit test
\* mx >= it.x && mx <= it.x + it.w && my >= it.y && my <= it.y + it.h
Hit(it, mx, my) ==
  /\ FLeq(it.x, Num(mx)) /\ FLeq(Num(mx), FAdd(it.x, it.w))
  /\ FLeq(it.y, Num(my)) /\ FLeq(Num(my), FAdd(it.y, it.h))

\* getHoveredItem(mx, my) over the tile list its: <<>> for null, else the one
\* tile returned, the first one in stored order that the pointer hits
getHoveredItem(its, mx, my) ==
  LET hits == { n \in 1..Len(its) : Hit(its[n], mx, my) }
  IN  IF hits = {} THEN Null
      ELSE << its[CHOOSE n \in hits : \A m \in hits : n <= m] >>

\* ------------------------------------------------------------ tooltip
Max(a, b) == IF a > b THEN a ELSE b
\* The box rect(x, y, boxW, boxH, 8) that drawTooltip(it) draws with the
\* pointer at (mx, my), where textWidth measures the two lines of the tile
\* (title and artist) as widths[1] and widths[2].
drawTooltip(it, mx, my, widths) ==
  LET lines == << it.title, it.artist >>
      padding == 8
      maxW == Max(Max(0, widths[1]), widths[2])
      boxW == maxW + padding * 2
      boxH == Len(lines) * 16 + padding * 2
      x0 == mx + 12
      y0 == my + 12
      x == IF x0 + boxW > width THEN width - boxW - 8 ELSE x0
      y == IF y0 + boxH > height THEN height - boxH - 8 ELSE y0
  IN  << x, y, boxW, boxH >>

\* the objectIDs of a list of records or tiles, in order
IDs(rs) == [ n \in 1..Len(rs) |-> rs[n].objectID ]

\* ------------------------------------------------------------ invocations
\* pc: the await the invocation is suspended at
\*   "fetchSearch"  await fetch(searchUrl)            "searchJson"  await res.json()
\*   "fetchObject"  await fetch(url) in fetchObject   "objectJson"  await res.json()
\*   "loadImage"    await loadP5Image(base.imageUrl)  "done"        returned
\* i and k are the loop indices, counted from 1.  usable and overlapped are
\* history: which detail replies carried a usable record, and whether another
\* invocation was running at any time during this one.
NewInvocation(query, overlapped) ==
  [ query |-> query, pc |-> "fetchSearch", ids |-> <<>>, i |-> 0, picked |-> <<>>,
    k |-> 0, usable |-> <<>>, outcome |-> "", overlapped |-> overlapped ]

Running(s) == searches[s].pc # "done"
AnyRunning == \E s \in 1..Len(searches) : Running(s)

Request(s, kind, arg) == [ inv |-> s, kind |-> kind, arg |-> arg ]
SearchUrl(query) == << "search?hasImages=true&q=" >> \o query
ObjectUrl(id) == << "objects/", ToString(id) >>
\* the request invocation s waits for
Pending(s) == { r \in net : r.inv = s }

\* the loop test with the cap off by one
LoopContinuesOffByOne(i, ids, picked) == i <= Len(ids) /\ Len(picked) <= MAX_ITEMS

\* for (...; i < ids.length && picked.length < MAX_ITEMS; ...)
LoopContinues(i, ids, picked) == i <= Len(ids) /\ Len(picked) < MAX_ITEMS

\* return / end of try, then finally { loading = false }
Return(s, inv, outcome) ==
  /\ searches' = [searches EXCEPT ![s] = [inv EXCEPT !.pc = "done", !.outcome = outcome]]
  /\ net' = net \ Pending(s)
  /\ loading' = FALSE

\* searchMet aborting the invocations still running before it resets the session
searchMetCancelling(query) ==
  /\ world.searches > 0
  /\ world.overlap \/ ~AnyRunning
  /\ world' = [world EXCEPT !.searches = @ - 1]
  /\ loading' = TRUE
  /\ errMsg' = Null
  /\ items' = <<>>
  /\ statusEl' = Msg("searching", 0, 0, query)
  /\ searches' =
       Append([ s \in 1..Len(searches) |->
                  IF Running(s)
                  THEN [searches[s] EXCEPT !.pc = "done", !.outcome = "error",
                                           !.overlapped = TRUE]
                  ELSE searches[s] ],
              NewInvocation(query, AnyRunning))
  /\ net' = { Request(Len(searches) + 1, "fetch", SearchUrl(query)) }

\* async function searchMet(query), up to its first await
searchMet(query) ==
  /\ world.searches > 0
  /\ world.overlap \/ ~AnyRunning
  /\ world' = [world EXCEPT !.searches = @ - 1]
  /\ loading' = TRUE
  /\ errMsg' = Null
  /\ items' = <<>>
  /\ statusEl' = Msg("searching", 0, 0, query)
  /\ searches' =
       Append([ s \in 1..Len(searches) |->
                  IF Running(s) THEN [searches[s] EXCEPT !.overlapped = TRUE]
                  ELSE searches[s] ],
              NewInvocation(query, AnyRunning))
  /\ net' = net \cup { Request(Len(searches) + 1, "fetch", SearchUrl(query)) }

\* ------------------------------------------------------------ the page
\* function setup(): the canvas, the listeners, then the first search
setup ==
  /\ ~booted
  /\ booted' = TRUE
  /\ searchMet(Trim(qEl))
  /\ UNCHANGED qEl
  /\ out' = NoOutput

\* the click listener of #go
goClick ==
  LET q == Trim(qEl)
  IN  IF q # <<>> THEN searchMet(q) /\ UNCHANGED << booted, qEl >>
      ELSE UNCHANGED state

\* the user clicks #go
ClickGo ==
  /\ booted
  /\ goClick
  /\ out' = NoOutput

\* the keydown listener of #query: Enter clicks #go
Keydown ==
  /\ booted
  /\ \E key \in { "Enter", "a" } :
       IF key = "Enter" THEN goClick ELSE UNCHANGED state
  /\ out' = NoOutput

\* the user edits the query input
EditQuery ==
  /\ booted
  /\ \E v \in InputValues : qEl' = v
  /\ UNCHANGED << booted, loading, errMsg, items, statusEl, searches, net, world >>
  /\ out' = NoOutput

\* the click listener of #rand
ClickRand ==
  /\ booted
  /\ \E n \in 1..WordsUsed :
       LET w == randomWords[n]
       IN  /\ qEl' = w
           /\ searchMet(w)
  /\ UNCHANGED booted
  /\ out' = NoOutput

\* ------------------------------------------------------------ searchMet
\* catch (e) { errMsg = e.message; setStatus("error: " + errMsg) } finally
Throw(s, message) ==
  /\ errMsg' = message
  /\ statusEl' = Msg("error", 0, 0, message)
  /\ Return(s, searches[s], "error")
  /\ UNCHANGED << booted, qEl, items >>

\* the body of the search reply: res.json() rejects, or resolves to null, to an
\* object without objectIDs (or with objectIDs: null), or to one with a list
SearchBodies(lists) ==
  { [kind |-> k, objectIDs |-> <<>>] : k \in { "bad", "null", "absent" } } \cup
  { [kind |-> "list", objectIDs |-> l] : l \in lists }

\* the detail loop without the return on an empty picked list: the code after
\* the loop resets items, preloads nothing and runs to the end of the try block
DetailLoopNoEmptyReturn(s, inv, st) ==
  IF LoopContinues(inv.i, inv.ids, inv.picked)
  THEN /\ searches' = [searches EXCEPT ![s] = [inv EXCEPT !.pc = "fetchObject"]]
       /\ net' = (net \ Pending(s)) \cup { Request(s, "fetch", ObjectUrl(inv.ids[inv.i])) }
       /\ statusEl' = st
       /\ UNCHANGED << loading, items >>
  ELSE IF Len(inv.picked) = 0
  THEN /\ items' = <<>>
       /\ statusEl' = Msg("loaded", 0, 0, inv.query)
       /\ Return(s, inv, "loaded")
  ELSE /\ items' = <<>>
       /\ searches' = [searches EXCEPT ![s] = [inv EXCEPT !.pc = "loadImage", !.k = 1]]
       /\ net' = (net \ Pending(s)) \cup { Request(s, "image", inv.picked[1].imageUrl) }
       /\ statusEl' = st
       /\ UNCHANGED loading

\* The detail loop from its test on, then the code after it up to the next
\* await.  inv is the invocation with i and picked as the loop test sees them,
\* st the status text at that point.
DetailLoop(s, inv, st) ==
  IF LoopContinues(inv.i, inv.ids, inv.picked)
  THEN /\ searches' = [searches EXCEPT ![s] = [inv EXCEPT !.pc = "fetchObject"]]
       /\ net' = (net \ Pending(s)) \cup { Request(s, "fetch", ObjectUrl(inv.ids[inv.i])) }
       /\ statusEl' = st
       /\ UNCHANGED << loading, items >>
  ELSE IF Len(inv.picked) = 0
  THEN /\ statusEl' = Msg("none usable", 0, 0, <<>>)
       /\ Return(s, inv, "noImages")
       /\ UNCHANGED items
  ELSE /\ items' = <<>>
       /\ searches' = [searches EXCEPT ![s] = [inv EXCEPT !.pc = "loadImage", !.k = 1]]
       /\ net' = (net \ Pending(s)) \cup { Request(s, "image", inv.picked[1].imageUrl) }
       /\ statusEl' = st
       /\ UNCHANGED loading

\* fetch(searchUrl) settles: a rejection and a non-ok status throw
SearchResponds(s) ==
  /\ searches[s].pc = "fetchSearch"
  /\ \E res \in Responses :
       IF res.rejected THEN Throw(s, << "Failed to fetch" >>)
       ELSE IF ~res.ok
       THEN \E status \in BadStatus : Throw(s, << "search", "http", status >>)
       ELSE /\ searches' = [searches EXCEPT ![s].pc = "searchJson"]
            /\ net' = (net \ Pending(s)) \cup
                        { Request(s, "json", SearchUrl(searches[s].query)) }
            /\ UNCHANGED << booted, qEl, loading, errMsg, items, statusEl >>
  /\ UNCHANGED world
  /\ out' = NoOutput

\* res.json() of the search reply settles
SearchJsonResolves(s) ==
  /\ searches[s].pc = "searchJson"
  /\ \E body \in SearchBodies({ l \in world.lists : Len(l) <= world.ids }) :
       IF body.kind = "bad" THEN
         Throw(s, << "Unexpected token" >>) /\ UNCHANGED world
       ELSE IF body.kind = "null" THEN
         Throw(s, << "Cannot read properties of null" >>) /\ UNCHANGED world
       ELSE
         LET ids == IF body.kind = "absent" THEN <<>> ELSE body.objectIDs
         IN  /\ world' = [world EXCEPT !.ids = @ - Len(ids)]
             /\ IF Len(ids) = 0
                THEN /\ statusEl' = Msg("no matches", 0, 0, searches[s].query)
                     /\ Return(s, searches[s], "noMatches")
                     /\ UNCHANGED items
                ELSE DetailLoop(s, [searches[s] EXCEPT !.ids = ids, !.i = 1, !.picked = <<>>],
                                Msg("found", Len(ids), 0, <<>>))
             /\ UNCHANGED << booted, qEl, errMsg >>
  /\ out' = NoOutput

\* the same with picked.unshift(obj) for picked.push(obj)
PickedUnshift(s, res, body) ==
  [ searches[s] EXCEPT !.picked = fetchObject(res, body) \o @,
                       !.usable = Append(@, Usable(res, body)),
                       !.i = @ + 1 ]

\* const obj = await fetchObject(ids[i]); if (obj) picked.push(obj); i++
Picked(s, res, body) ==
  [ searches[s] EXCEPT !.picked = @ \o fetchObject(res, body),
                       !.usable = Append(@, Usable(res, body)),
                       !.i = @ + 1 ]

\* fetch(url) in fetchObject settles, with no try/catch around it: a rejection
\* or a non-ok status reaches the catch block of searchMet
ObjectRespondsThrows(s) ==
  /\ searches[s].pc = "fetchObject"
  /\ \E res \in Responses :
       IF res = OkResponse
       THEN /\ searches' = [searches EXCEPT ![s].pc = "objectJson"]
            /\ net' = (net \ Pending(s)) \cup
                        { Request(s, "json", ObjectUrl(searches[s].ids[searches[s].i])) }
            /\ UNCHANGED << loading, errMsg, items, statusEl, world >>
       ELSE /\ world.faults > 0
            /\ world' = [world EXCEPT !.faults = @ - 1]
            /\ errMsg' = << "Failed to fetch" >>
            /\ statusEl' = Msg("error", 0, 0, << "Failed to fetch" >>)
            /\ Return(s, searches[s], "error")
            /\ UNCHANGED items
  /\ UNCHANGED << booted, qEl >>
  /\ out' = NoOutput

\* fetch(url) in fetchObject settles
ObjectResponds(s) ==
  /\ searches[s].pc = "fetchObject"
  /\ \E res \in Responses :
       IF res = OkResponse
       THEN /\ searches' = [searches EXCEPT ![s].pc = "objectJson"]
            /\ net' = (net \ Pending(s)) \cup
                        { Request(s, "json", ObjectUrl(searches[s].ids[searches[s].i])) }
            /\ UNCHANGED << loading, items, statusEl, world >>
       ELSE /\ world.faults > 0
            /\ world' = [world EXCEPT !.faults = @ - 1]
            /\ DetailLoop(s, Picked(s, res, [parses |-> FALSE, d |-> Detail(0, <<>>)]),
                          statusEl)
  /\ UNCHANGED << booted, qEl, errMsg >>
  /\ out' = NoOutput

\* res.json() in fetchObject settles
ObjectJsonResolves(s) ==
  /\ searches[s].pc = "objectJson"
  /\ \E body \in DetailBodies(searches[s].ids[searches[s].i]) :
       /\ IF Usable(OkResponse, body) THEN UNCHANGED world
          ELSE /\ world.faults > 0
               /\ world' = [world EXCEPT !.faults = @ - 1]
       /\ DetailLoop(s, Picked(s, OkResponse, body), statusEl)
  /\ UNCHANGED << booted, qEl, errMsg >>
  /\ out' = NoOutput

\* loadP5Image: the promise resolves to the image, or to null when loadImage fails
loadP5Image(loaded) == IF loaded THEN "img" ELSE "null"

\* layoutGrid(); setStatus(`loaded ...`); then finally: its is the tile list
\* the preload loop has left in items
EndOfTry(s, inv, its) ==
  /\ items' = layoutGrid(its)
  /\ statusEl' = Msg("loaded", Len(its), 0, inv.query)
  /\ Return(s, inv, "loaded")

\* loadP5Image without its error callback: when the image fails to load the
\* promise never settles and the invocation stays at its await
ImageLoadsNoErrorCallback(s) ==
  /\ searches[s].pc = "loadImage"
  /\ \E loaded \in BOOLEAN :
       LET inv == searches[s]
           base == inv.picked[inv.k]
           pushed == Append(items, NewTile(base, loadP5Image(loaded)))
       IN  IF ~loaded
           THEN /\ world.faults > 0
                /\ world' = [world EXCEPT !.faults = @ - 1]
                /\ searches' = [searches EXCEPT ![s].pc = "never"]
                /\ net' = net \ Pending(s)
                /\ UNCHANGED << loading, items, statusEl >>
           ELSE /\ UNCHANGED world
                /\ IF inv.k + 1 <= Len(inv.picked)
                   THEN /\ items' = pushed
                        /\ statusEl' = Msg("thumbnails", inv.k, Len(inv.picked), <<>>)
                        /\ searches' = [searches EXCEPT ![s].k = @ + 1]
                        /\ net' = (net \ Pending(s)) \cup
                                    { Request(s, "image", inv.picked[inv.k + 1].imageUrl) }
                        /\ UNCHANGED loading
                   ELSE EndOfTry(s, [inv EXCEPT !.k = @ + 1], pushed)
  /\ UNCHANGED << booted, qEl, errMsg >>
  /\ out' = NoOutput

\* loadP5Image(base.imageUrl) settles: push the tile, then the next image or
\* layoutGrid and the end of the try block
ImageLoads(s) ==
  /\ searches[s].pc = "loadImage"
  /\ \E loaded \in BOOLEAN :
       LET inv == searches[s]
           base == inv.picked[inv.k]
           pushed == Append(items, NewTile(base, loadP5Image(loaded)))
       IN  /\ IF loaded THEN UNCHANGED world
              ELSE /\ world.faults > 0
                   /\ world' = [world EXCEPT !.faults = @ - 1]
           /\ IF inv.k + 1 <= Len(inv.picked)
              THEN /\ items' = pushed
                   /\ statusEl' = Msg("thumbnails", inv.k, Len(inv.picked), <<>>)
                   /\ searches' = [searches EXCEPT ![s].k = @ + 1]
                   /\ net' = (net \ Pending(s)) \cup
                               { Request(s, "image", inv.picked[inv.k + 1].imageUrl) }
                   /\ UNCHANGED loading
              ELSE EndOfTry(s, [inv EXCEPT !.k = @ + 1], pushed)
  /\ UNCHANGED << booted, qEl, errMsg >>
  /\ out' = NoOutput

\* ------------------------------------------------------------ draw, mousePressed
\* One frame of the draw loop, with the pointer at (mx, my).
draw(mx, my, widths) ==
  /\ booted
  /\ out' =
       IF loading THEN Output("frame", mx, my, "loading", <<>>, <<>>, <<>>)
       ELSE IF errMsg # Null THEN Output("frame", mx, my, "error", errMsg, <<>>, <<>>)
       ELSE IF Len(items) = 0 THEN Output("frame", mx, my, "no images yet", <<>>, <<>>, <<>>)
       ELSE LET hover == getHoveredItem(items, mx, my)
            IN  Output("frame", mx, my, "grid", <<>>, hover,
                       IF hover # Null THEN drawTooltip(hover[1], mx, my, widths)
                       ELSE <<>>)
  /\ UNCHANGED state

\* A mouse press with the pointer at (mx, my).
mousePressed(mx, my) ==
  /\ booted
  /\ out' =
       LET hover == getHoveredItem(items, mx, my)
       IN  Output("press", mx, my, "", 
                  IF hover # Null
                  THEN << "https://www.metmuseum.org/art/collection/search/",
                          ToString(hover[1].objectID) >>
                  ELSE <<>>,
                  hover, <<>>)
  /\ UNCHANGED state

\* ------------------------------------------------------------ specifications
\* searches, faults and ids count down what is left of the bounds; lists are the
\* answers of the search endpoint; overlap tells whether the user starts a
\* search while another one is running.
World(faults, ids, lists, overlap) ==
  [ searches |-> MaxSearches, faults |-> faults, ids |-> ids, lists |-> lists,
    overlap |-> overlap ]

Start ==
  /\ booted = FALSE
  /\ qEl \in InputValues \cup { <<"a">> }
  /\ loading = FALSE
  /\ errMsg = Null
  /\ items = <<>>
  /\ statusEl = Msg("", 0, 0, <<>>)
  /\ searches = <<>>
  /\ net = {}
  /\ out = NoOutput

Init == Start /\ world = World(MaxFaults, MaxIds, IdLists, TRUE)

Next ==
  \/ setup
  \/ ClickGo
  \/ Keydown
  \/ EditQuery
  \/ ClickRand
  \/ \E s \in 1..Len(searches) : SearchResponds(s)
  \/ \E s \in 1..Len(searches) : SearchJsonResolves(s)
  \/ \E s \in 1..Len(searches) : ObjectResponds(s)
  \/ \E s \in 1..Len(searches) : ObjectJsonResolves(s)
  \/ \E s \in 1..Len(searches) : ImageLoads(s)

Spec == Init /\ [][Next]_vars

\* The reply that invocation s awaits arrives: every request and every image
\* load eventually completes, so this step is not postponed forever.
Settles(s) ==
  /\ s \in 1..Len(searches)
  /\ \/ SearchResponds(s) \/ SearchJsonResolves(s)
     \/ ObjectResponds(s) \/ ObjectJsonResolves(s)
     \/ ImageLoads(s)

InitLive == Start /\ world = World(LiveFaults, LiveIds, IdLists, TRUE)

SpecLive == InitLive /\ [][Next]_vars /\ \A s \in 1..MaxSearches : WF_vars(Settles(s))

\* The long-answer scenario: the search endpoint answers with more ids than
\* the cap, and the user waits for a search to finish before the next one.
InitCap == Start /\ world = World(CapFaults, 2 * MAX_ITEMS + 2, CapLists, FALSE)

SpecCap == InitCap /\ [][Next]_vars

\* The race scenario: long answers, no failing request, MAX_ITEMS + 2 ids in
\* all, so that a long search overlaps a one-id search.
InitRace == Start /\ world = World(0, MAX_ITEMS + 2, CapLists, TRUE)

SpecRace == InitRace /\ [][Next]_vars

\* The session with its canvas: the draw loop and mouse presses run between
\* the steps of the searches, with the pointer anywhere in Points and the two
\* tooltip lines measuring any of TextWidths.
InitView == Start /\ world = World(ViewFaults, ViewIds, IdLists, TRUE)

NextView ==
  \/ Next
  \/ \E p \in Points, widths \in [1..2 -> TextWidths] : draw(p[1], p[2], widths)
  \/ \E p \in Points : mousePressed(p[1], p[2])

SpecView == InitView /\ [][NextView]_vars

\* layoutGrid as a function of the tile count: the preload loop of a lone search
\* has left N tiles in items, and the end of the try block runs.
Records(N) ==
  [ n \in 1..N |-> fetchObject(OkResponse, [parses |-> TRUE, d |-> Detail(n, ImageUrl(n))])[1] ]

InitLayout ==
  /\ booted = TRUE
  /\ qEl = randomWords[1]
  /\ loading = TRUE
  /\ errMsg = Null
  /\ net = {}
  /\ out = NoOutput
  /\ world = World(0, 0, {}, FALSE)
  /\ \E N \in 1..MaxTiles :
       /\ searches = << [ NewInvocation(randomWords[1], FALSE) EXCEPT
                            !.pc = "layoutGrid", !.ids = [n \in 1..N |-> n], !.i = N + 1,
                            !.picked = Records(N), !.k = N + 1,
                            !.usable = [n \in 1..N |-> TRUE] ] >>
       /\ items = [ n \in 1..N |-> NewTile(Records(N)[n], loadP5Image(TRUE)) ]
       /\ statusEl = Msg("thumbnails", N, N, <<>>)

LayoutStep(s) ==
  /\ searches[s].pc = "layoutGrid"
  /\ EndOfTry(s, searches[s], items)
  /\ UNCHANGED << booted, qEl, errMsg, world >>
  /\ out' = NoOutput

NextLayout == \E s \in 1..Len(searches) : LayoutStep(s)

SpecLayout == InitLayout /\ [][NextLayout]_vars

\* ------------------------------------------------------------ properties
Invocations == 1..Len(searches)
\* invocation s returns in this step with the given outcome
Returns(s, outcome) ==
  /\ searches[s].pc # "done"
  /\ searches'[s].pc = "done"
  /\ searches'[s].outcome = outcome
\* the ids of a search whose detail reply was usable, in the order tried
RECURSIVE UsableIds(_, _)
UsableIds(ids, usable) ==
  IF usable = <<>> THEN <<>>
  ELSE (IF Head(usable) THEN << Head(ids) >> ELSE <<>>) \o UsableIds(Tail(ids), Tail(usable))
Take(q, n) == SubSeq(q, 1, IF Len(q) < n THEN Len(q) ELSE n)
HasBounds(t) == FLt(Num(0), t.w) /\ FLt(Num(0), t.h)

\* C1: in every reachable state the tile list items holds at most MAX_ITEMS
\* tiles, also when a search is started while an earlier one is running.
C1_ItemsCapped == Len(items) <= MAX_ITEMS

\* C2: no invocation of searchMet ever holds more than MAX_ITEMS accepted
\* records in picked, every accepted record has a non-empty imageUrl, and so
\* has every image load that is issued.
C2_PickedCapped ==
  /\ \A s \in Invocations :
       /\ Len(searches[s].picked) <= MAX_ITEMS
       /\ \A n \in 1..Len(searches[s].picked) : ~Falsy(searches[s].picked[n].imageUrl)
  /\ \A r \in net : r.kind = "image" => ~Falsy(r.arg)

\* C2 witness: a search with more candidates than the cap has filled picked to
\* the cap, after a detail reply without a usable record, and preloads.
C2_Witness ==
  \E s \in Invocations :
    /\ searches[s].pc = "loadImage"
    /\ Len(searches[s].ids) > MAX_ITEMS
    /\ Len(searches[s].picked) = MAX_ITEMS
    /\ \E n \in 1..Len(searches[s].usable) : ~searches[s].usable[n]

\* C3: when the latest search has returned, its search request succeeded and no
\* other search overlapped it, items is the first up-to-MAX_ITEMS candidate ids
\* whose detail reply was usable, in the order of the search answer, loading is
\* false and errMsg is null.
C3_FinalTiles ==
  \A s \in Invocations :
    ( /\ s = Len(searches)
      /\ searches[s].pc = "done"
      /\ searches[s].outcome # "error"
      /\ ~searches[s].overlapped )
    => /\ IDs(items) = Take(UsableIds(searches[s].ids, searches[s].usable), MAX_ITEMS)
       /\ loading = FALSE
       /\ errMsg = Null

\* C3 witness: candidate ids [1,2,3] with the detail fetch of 2 failing have
\* ended with tiles [1,3].
C3_Witness ==
  /\ Len(searches) >= 1
  /\ LET inv == searches[Len(searches)]
     IN  /\ inv.pc = "done" /\ inv.outcome = "loaded" /\ ~inv.overlapped
         /\ inv.ids = <<1, 2, 3>>
         /\ inv.usable = << TRUE, FALSE, TRUE >>
  /\ IDs(items) = <<1, 3>>
  /\ loading = FALSE
  /\ errMsg = Null

\* C4: whenever an invocation ends its preload loop and calls layoutGrid, items
\* has the length and the record order of that invocation's picked list.
C4_LayoutMatchesPicked ==
  [][ \A s \in Invocations :
        Returns(s, "loaded") => IDs(items') = IDs(searches[s].picked) ]_vars

\* C5: when the search request fails with a non-ok status, the search ends with
\* loading false, errMsg naming "http" and the status, items empty, and no
\* detail request or image load issued for it.
C5_HttpErrorEndsEmpty ==
  [][ \A s \in Invocations :
        ( /\ searches[s].pc = "fetchSearch"
          /\ Returns(s, "error")
          /\ \E status \in BadStatus : errMsg' = << "search", "http", status >> )
        => /\ loading' = FALSE
           /\ items' = <<>>
           /\ \A r \in net' : r.inv # s
           /\ searches'[s].usable = <<>> ]_vars

\* C6: when the search answer carries no candidate ids, the search ends with
\* loading false, errMsg null, items empty and the "no matches" status.
C6_NoMatchesEndsClean ==
  [][ \A s \in Invocations :
        Returns(s, "noMatches")
        => /\ loading' = FALSE
           /\ errMsg' = Null
           /\ items' = <<>>
           /\ statusEl' = Msg("no matches", 0, 0, searches[s].query) ]_vars

\* C7: searchMet is never called with an empty query, on any path that starts
\* a search.
C7_NoEmptyQuery == \A s \in Invocations : searches[s].query # <<>>

\* C8: whenever loading is false and errMsg is null, items is empty or every
\* tile of items has non-zero bounds.
C8_ReadyTilesLaidOut ==
  (loading = FALSE /\ errMsg = Null)
  => \A n \in 1..Len(items) : HasBounds(items[n])

\* C9: at most one network request is in flight at any moment.
C9_OneInFlight == Cardinality(net) <= 1

\* inside [PAD, width - PAD] x [PAD, height - PAD], with positive size
Fits(t) ==
  /\ HasBounds(t)
  /\ FLeq(Num(PAD), t.x) /\ FLeq(FAdd(t.x, t.w), Num(width - PAD))
  /\ FLeq(Num(PAD), t.y) /\ FLeq(FAdd(t.y, t.h), Num(height - PAD))
LaidOut == Len(searches) = 1 /\ searches[1].pc = "done"
\* 3 rows of 6 tiles of width 135 and height 500/3
Grid18(its) ==
  \A n \in 1..Len(its) :
    /\ its[n].w = Num(135) /\ its[n].h = Frac(500, 3)
    /\ its[n].x = Num(PAD + ((n - 1) % 6) * 145)
    /\ its[n].y = Frac(3 * PAD + ((n - 1) \div 6) * 530, 3)

Apart(a, b) ==
  \/ FLt(FAdd(a.x, a.w), b.x) \/ FLt(FAdd(b.x, b.w), a.x)
  \/ FLt(FAdd(a.y, a.h), b.y) \/ FLt(FAdd(b.y, b.h), a.y)
\* the rectangles of a and b are at least GAP apart in x or in y
GapApart(a, b) ==
  \/ FLeq(FAdd(FAdd(a.x, a.w), Num(GAP)), b.x)
  \/ FLeq(FAdd(FAdd(b.x, b.w), Num(GAP)), a.x)
  \/ FLeq(FAdd(FAdd(a.y, a.h), Num(GAP)), b.y)
  \/ FLeq(FAdd(FAdd(b.y, b.h), Num(GAP)), a.y)

HitTested == out.kind = "press" \/ (out.kind = "frame" /\ out.show = "grid")
\* the pointer is on the canvas but in the padding around the grid
InOuterPadding(mx, my) ==
  /\ 0 <= mx /\ mx <= width /\ 0 <= my /\ my <= height
  /\ mx < PAD \/ mx > width - PAD \/ my < PAD \/ my > height - PAD
\* the pointer is in the grid area, between two columns of tiles
InColumnGap(mx, my) ==
  LET tileW == Frac(width - PAD * 2 - GAP * (GRID_COLS - 1), GRID_COLS)
  IN  /\ PAD <= my /\ my <= height - PAD
      /\ \E c \in 1..(GRID_COLS - 1) :
           LET next == FAdd(Num(PAD), FMul(Num(c), FAdd(tileW, Num(GAP))))
           IN  FLt(FAdd(next, Num(-GAP)), Num(mx)) /\ FLt(Num(mx), next)

\* C12 as stated: whenever getHoveredItem is called, from draw or from
\* mousePressed and in any session state, it returns the first tile in stored
\* order whose rectangle (edges included) holds the pointer, none when no
\* rectangle does, and none for a pointer in the outer padding or in a gap.
C12_HitTest ==
  HitTested =>
    LET inside == { n \in 1..Len(items) : Hit(items[n], out.mx, out.my) }
    IN  /\ inside = {} => out.hover = Null
        /\ \A n \in inside :
             (\A m \in inside : n <= m) => out.hover = << items[n] >>
        /\ (InOuterPadding(out.mx, out.my) \/ InColumnGap(out.mx, out.my))
             => out.hover = Null

\* C12 without its last part: the tile returned is the first one hit.
C12_FirstHit ==
  HitTested =>
    LET inside == { n \in 1..Len(items) : Hit(items[n], out.mx, out.my) }
    IN  /\ inside = {} => out.hover = Null
        /\ \A n \in inside :
             (\A m \in inside : n <= m) => out.hover = << items[n] >>

\* C12 in the ready state: no search is running and every tile has bounds.
C12_ReadyHitTest ==
  ( /\ HitTested /\ ~AnyRunning
    /\ \A n \in 1..Len(items) : HasBounds(items[n])
    /\ InOuterPadding(out.mx, out.my) \/ InColumnGap(out.mx, out.my) )
  => out.hover = Null

\* C13 as stated: while some searchMet invocation has started and not yet
\* finished, loading is true, and a frame drawn then shows the loading message
\* and no grid.
C13_LoadingWhileRunning ==
  AnyRunning => /\ loading = TRUE
                /\ out.kind = "frame" => out.show = "loading"

\* the step starts a new searchMet invocation
Starts == Len(searches') = Len(searches) + 1
\* the step is a continuation of invocation s
Continues(s) == Len(searches') = Len(searches) /\ searches'[s] # searches[s]

\* C14: a search started while an earlier one is running leaves the earlier
\* one running, at the same await and with its request still in flight; and an
\* invocation that is no longer the latest one still appends the tile of each
\* image reply it receives to the shared items.
C14_OldLoopKeepsRunning ==
  [][ \A s \in Invocations :
        /\ (Starts /\ Running(s)) =>
             /\ searches'[s].pc = searches[s].pc
             /\ Pending(s) # {} /\ Pending(s) \subseteq net'
        /\ (Continues(s) /\ s < Len(searches) /\ searches[s].pc = "loadImage") =>
             IDs(items') = Append(IDs(items),
                                  searches[s].picked[searches[s].k].objectID)
    ]_vars

\* C14 witness: two searches, the second started while the first was running,
\* have both finished with a grid laid out, and items holds a tile of an
\* object that only the first search was answered with.
C14_Witness ==
  /\ Len(searches) = 2 /\ ~AnyRunning
  /\ searches[1].overlapped /\ searches[2].overlapped
  /\ searches[1].outcome = "loaded" /\ searches[2].outcome = "loaded"
  /\ \E n \in 1..Len(items) :
       /\ \E m \in 1..Len(searches[1].picked) :
            searches[1].picked[m].objectID = items[n].objectID
       /\ \A m \in 1..Len(searches[2].ids) :
            searches[2].ids[m] # items[n].objectID

\* C15: every step in which an invocation runs layoutGrid (the end of its
\* try block) leaves at least one tile in items, so rows = ceil(n / GRID_COLS)
\* is at least 1 and the tile height is never divided by zero, whatever the
\* interleaving of searches.
C15_LayoutHasTiles ==
  [][ \A s \in Invocations :
        Returns(s, "loaded") =>
          /\ Len(items') >= 1
          /\ Ceil(Len(items'), GRID_COLS) >= 1
    ]_vars

\* C15 witness: an invocation that picked two records has run layoutGrid on a
\* single tile, a later search having emptied items between its two pushes.
C15_Witness ==
  /\ Len(searches) = 2
  /\ searches[1].pc = "done" /\ searches[1].outcome = "loaded"
  /\ Len(searches[1].picked) = 2
  /\ Running(2)
  /\ Len(items) = 1 /\ HasBounds(items[1])

\* invocation s waits for the request of the given kind and argument
Awaits(s, kind, arg) == Request(s, kind, arg) \in net'
\* the step settles the reply to the search request of some invocation (its
\* fetch or the res.json() of its body), and that invocation ends on its catch
SearchStepFails ==
  \E s \in Invocations :
    /\ searches[s].pc \in { "fetchSearch", "searchJson" }
    /\ Returns(s, "error")
\* a step of the detail loop of s that finishes one fetchObject call goes on
\* with the next id, or leaves the loop because the test of the loop fails
DetailGoesOn(s) ==
  LET old == searches[s]
      new == searches'[s]
  IN  new.pc # "objectJson" =>
        /\ new.i = old.i + 1
        /\ new.outcome # "error"
        /\ IF LoopContinues(new.i, new.ids, new.picked)
           THEN new.pc = "fetchObject" /\ Awaits(s, "fetch", ObjectUrl(new.ids[new.i]))
           ELSE IF new.picked = <<>> THEN new.outcome = "noImages"
           ELSE new.pc = "loadImage" /\ Awaits(s, "image", new.picked[1].imageUrl)
\* a step of the preload loop of s pushes a tile and goes on with the next
\* image, or lays the grid out after the last one
PreloadGoesOn(s) ==
  LET old == searches[s]
      new == searches'[s]
  IN  /\ Len(items') = Len(items) + 1
      /\ new.k = old.k + 1
      /\ IF new.k <= Len(old.picked)
         THEN new.pc = "loadImage" /\ Awaits(s, "image", old.picked[new.k].imageUrl)
         ELSE new.outcome = "loaded"

\* C16: errMsg changes to a non-null value only in a step in which the search
\* request of an invocation fails (its fetch rejects or is not ok, or its body
\* does not yield a result object); a step that settles a detail fetch, a
\* detail body or an image load, failed or not, leaves errMsg alone and goes
\* on with the remaining ids or images.
C16_OnlySearchStepErrors ==
  [][ /\ (errMsg' # Null /\ errMsg' # errMsg) => SearchStepFails
      /\ \A s \in Invocations :
           /\ (Continues(s) /\ searches[s].pc \in { "fetchObject", "objectJson" })
                => errMsg' = errMsg /\ DetailGoesOn(s)
           /\ (Continues(s) /\ searches[s].pc = "loadImage")
                => errMsg' = errMsg /\ PreloadGoesOn(s)
    ]_vars

\* C16 witness: a lone search has laid its grid out although a detail fetch
\* failed and an image failed to load; errMsg is null and the tile of the
\* failed image is in items.
C16_Witness ==
  /\ Len(searches) = 1
  /\ searches[1].pc = "done" /\ searches[1].outcome = "loaded"
  /\ \E n \in 1..Len(searches[1].usable) : ~searches[1].usable[n]
  /\ \E n \in 1..Len(items) : items[n].img = "null"
  /\ \E n \in 1..Len(items) : items[n].img = "img"
  /\ errMsg = Null

\* the most recently started invocation
Latest == searches[Len(searches)]

\* C17 as stated: once every started search has finished, errMsg and items
\* are the outcome of the most recently started search: after an error of
\* that search errMsg is its message and items is empty, after no matches or
\* no usable images errMsg is null and items is empty, and after a grid was
\* laid out errMsg is null and items holds exactly its picked records.
C17_LatestSearchShown ==
  (Len(searches) >= 1 /\ ~AnyRunning) =>
    /\ Latest.outcome = "error" => errMsg # Null /\ items = <<>>
    /\ Latest.outcome \in { "noMatches", "noImages" } => errMsg = Null /\ items = <<>>
    /\ Latest.outcome = "loaded" =>
         errMsg = Null /\ IDs(items) = IDs(Latest.picked)

\* the step just taken drew a tooltip
TipDrawn == out.kind = "frame" /\ out.tip # <<>>
\* the box << x, y, boxW, boxH >> lies within the canvas
InCanvas(box) ==
  /\ 0 <= box[1] /\ box[1] + box[3] <= width
  /\ 0 <= box[2] /\ box[2] + box[4] <= height

\* C18 as stated: for every pointer position and every box size computed by
\* drawTooltip, the tooltip rectangle lies fully within the canvas.
C18_TooltipInCanvas == TipDrawn => InCanvas(out.tip)

\* C18 for boxes at most width - 8 wide: those lie within the canvas.
C18_NarrowTooltipInCanvas ==
  (TipDrawn /\ out.tip[3] <= width - 8) => InCanvas(out.tip)

\* C20 as stated: in every reachable state in which errMsg is non-null, the
\* tile list items is empty.
C20_ErrorMeansNoTiles == errMsg # Null => items = <<>>

Outcomes == { "noMatches", "noImages", "loaded", "error" }
Finished(s) ==
  /\ s <= Len(searches)
  /\ searches[s].pc = "done"
  /\ searches[s].outcome \in Outcomes

\* C19: when every request and image load eventually completes, every
\* searchMet invocation that has started eventually finishes on no matches,
\* no usable images, a laid-out grid or an error; and in every state in which
\* all started invocations have finished, loading is false.
C19_EverySearchFinishes ==
  /\ \A s \in 1..MaxSearches : [](s <= Len(searches) => <>Finished(s))
  /\ [](~AnyRunning => loading = FALSE)

\* C19 witness: two overlapping searches have both finished, one on a grid and
\* one on an error, and loading is false.
C19_Witness ==
  /\ Len(searches) = 2 /\ Finished(1) /\ Finished(2)
  /\ searches[2].overlapped
  /\ { searches[1].outcome, searches[2].outcome } = { "loaded", "error" }
  /\ loading = FALSE

====
